---- MODULE Spec2Model ----
(***************************************************************************)
(* A model of the go-orderbook matching engine: the red-black ordered map  *)
(* (pkg/ds/rbmap), the level list (pkg/ds/list), the order type and the    *)
(* Orderbook operations (pkg/orderbook).                                   *)
(***************************************************************************)
EXTENDS Integers, Sequences, FiniteSets, TLC

(***************************************************************************)
(* Bounds of the model.                                                    *)
(***************************************************************************)
MaxId == 3
MaxPrice == 2
MaxQty == 2
MaxBatch == 2

OrderIdSet == 1..MaxId
PriceSet == 1..MaxPrice
QuantitySet == 0..MaxQty

(***************************************************************************)
(* pkg/orderbook: OrderType and Side.                                      *)
(***************************************************************************)
Market == "Market"
GoodTillCancel == "GoodTillCancel"
GoodForDay == "GoodForDay"
FillAndKill == "FillAndKill"
FillOrKill == "FillOrKill"
OrderType == {Market, GoodTillCancel, GoodForDay, FillAndKill, FillOrKill}

Buy == "Buy"
Sell == "Sell"
Side == {Buy, Sell}

(***************************************************************************)
(* pkg/ds/rbmap.  A *Node is identified by the key it carries (the code    *)
(* never copies a key from one node to another), Nil is the nil pointer,   *)
(* and the heap of nodes of one map is the function `node`.                *)
(***************************************************************************)
Nil == 0
Black == "Black"
Red == "Red"
Ascending == "Ascending"
Descending == "Descending"

\* SortFunc: Ascending(a, b) = a < b, Descending(a, b) = a > b.
less(m, a, b) == IF m.less = Ascending THEN a < b ELSE a > b

\* The heap of a map without nodes.
NoNodes == [k \in {} |-> Nil]

NewMap(lessFn) == [root |-> Nil, size |-> 0, less |-> lessFn, node |-> NoNodes]

\* The keys of the nodes reachable in the tree (every node of the heap).
Keys(m) == DOMAIN m.node

rotateLeft(m, x) ==
  LET n0 == m.node
      y  == n0[x].right
      n1 == [n0 EXCEPT ![x].right = n0[y].left]
      n2 == IF n1[y].left # Nil THEN [n1 EXCEPT ![n1[y].left].parent = x] ELSE n1
      n3 == [n2 EXCEPT ![y].parent = n2[x].parent]
      xp == n3[x].parent
      r4 == IF xp = Nil THEN y ELSE m.root
      n4 == IF xp = Nil THEN n3
            ELSE IF x = n3[xp].left THEN [n3 EXCEPT ![xp].left = y]
            ELSE [n3 EXCEPT ![xp].right = y]
      n5 == [n4 EXCEPT ![y].left = x]
      n6 == [n5 EXCEPT ![x].parent = y]
  IN [m EXCEPT !.root = r4, !.node = n6]

rotateRight(m, x) ==
  LET n0 == m.node
      y  == n0[x].left
      n1 == [n0 EXCEPT ![x].left = n0[y].right]
      n2 == IF n1[y].right # Nil THEN [n1 EXCEPT ![n1[y].right].parent = x] ELSE n1
      n3 == [n2 EXCEPT ![y].parent = n2[x].parent]
      xp == n3[x].parent
      r4 == IF xp = Nil THEN y ELSE m.root
      n4 == IF xp = Nil THEN n3
            ELSE IF x = n3[xp].right THEN [n3 EXCEPT ![xp].right = y]
            ELSE [n3 EXCEPT ![xp].left = y]
      n5 == [n4 EXCEPT ![y].right = x]
      n6 == [n5 EXCEPT ![x].parent = y]
  IN [m EXCEPT !.root = r4, !.node = n6]

\* The search loop shared by Insert, Get and Delete: the node that carries
\* `key`, or Nil; `parent` is the last node visited.
RECURSIVE descend(_, _, _, _)
descend(m, current, parent, key) ==
  IF current = Nil THEN [found |-> Nil, parent |-> parent]
  ELSE IF less(m, key, current) THEN descend(m, m.node[current].left, current, key)
  ELSE IF less(m, current, key) THEN descend(m, m.node[current].right, current, key)
  ELSE [found |-> current, parent |-> parent]

RECURSIVE fixInsert(_, _)
fixInsert(m, nd) ==
  LET n == m.node IN
  IF nd # m.root /\ n[n[nd].parent].color = Red
  THEN LET p == n[nd].parent
           g == n[p].parent
       IN IF p = n[g].left
          THEN LET uncle == n[g].right IN
               IF uncle # Nil /\ n[uncle].color = Red
               THEN fixInsert([m EXCEPT !.node = [n EXCEPT ![p].color = Black,
                                                           ![uncle].color = Black,
                                                           ![g].color = Red]], g)
               ELSE LET rot  == nd = n[p].right
                        nd1  == IF rot THEN p ELSE nd
                        m1   == IF rot THEN rotateLeft(m, nd1) ELSE m
                        p1   == m1.node[nd1].parent
                        g1   == m1.node[p1].parent
                        m2   == [m1 EXCEPT !.node = [m1.node EXCEPT ![p1].color = Black,
                                                                    ![g1].color = Red]]
                    IN fixInsert(rotateRight(m2, g1), nd1)
          ELSE LET uncle == n[g].left IN
               IF uncle # Nil /\ n[uncle].color = Red
               THEN fixInsert([m EXCEPT !.node = [n EXCEPT ![p].color = Black,
                                                           ![uncle].color = Black,
                                                           ![g].color = Red]], g)
               ELSE LET rot  == nd = n[p].left
                        nd1  == IF rot THEN p ELSE nd
                        m1   == IF rot THEN rotateRight(m, nd1) ELSE m
                        p1   == m1.node[nd1].parent
                        g1   == m1.node[p1].parent
                        m2   == [m1 EXCEPT !.node = [m1.node EXCEPT ![p1].color = Black,
                                                                    ![g1].color = Red]]
                    IN fixInsert(rotateLeft(m2, g1), nd1)
  ELSE [m EXCEPT !.node = [n EXCEPT ![m.root].color = Black]]

\* Insert: update the value of an existing key, or link a new red node and
\* rebalance.
Insert(m, key, value) ==
  LET d == descend(m, m.root, Nil, key) IN
  IF d.found # Nil
  THEN [m EXCEPT !.node = [m.node EXCEPT ![key].value = value]]
  ELSE LET newNode == [color |-> Red, left |-> Nil, right |-> Nil,
                       parent |-> d.parent, value |-> value]
           n1 == [k \in DOMAIN m.node \cup {key} |->
                    IF k = key THEN newNode ELSE m.node[k]]
           n2 == IF d.parent = Nil THEN n1
                 ELSE IF less(m, key, d.parent) THEN [n1 EXCEPT ![d.parent].left = key]
                 ELSE [n1 EXCEPT ![d.parent].right = key]
           r2 == IF d.parent = Nil THEN key ELSE m.root
       IN fixInsert([m EXCEPT !.root = r2, !.size = m.size + 1, !.node = n2], key)

\* Get: the value and whether the key exists (exists = FALSE gives the zero
\* value, which the caller supplies).
Has(m, key) == descend(m, m.root, Nil, key).found # Nil
Get(m, key, zero) == IF Has(m, key) THEN m.node[key].value ELSE zero

\* transplant(u, v): v takes u's place under u's parent.
transplant(m, u, v) ==
  LET n  == m.node
      up == n[u].parent
      r1 == IF up = Nil THEN v ELSE m.root
      n1 == IF up = Nil THEN n
            ELSE IF u = n[up].left THEN [n EXCEPT ![up].left = v]
            ELSE [n EXCEPT ![up].right = v]
      n2 == IF v # Nil THEN [n1 EXCEPT ![v].parent = n1[u].parent] ELSE n1
  IN [m EXCEPT !.root = r1, !.node = n2]

RECURSIVE minimum(_, _)
minimum(m, nd) == IF m.node[nd].left # Nil THEN minimum(m, m.node[nd].left) ELSE nd

\* fixDelete(node, parent) is always called with parent = nil (deleteNode
\* never assigns its `parent`), so the first iteration of its loop
\* dereferences nil in `parent.left`: the loop either is not entered or
\* panics.
fixDelete(m, nd) ==
  IF nd # m.root /\ (nd = Nil \/ m.node[nd].color = Black)
  THEN [m |-> m, panic |-> TRUE]
  ELSE [m |-> IF nd # Nil THEN [m EXCEPT !.node = [m.node EXCEPT ![nd].color = Black]]
              ELSE m,
        panic |-> FALSE]

\* Drop an unlinked node from the heap (garbage).
unlink(m, nd) == [m EXCEPT !.node = [k \in DOMAIN m.node \ {nd} |-> m.node[k]]]

deleteNode(m, nd) ==
  LET n == m.node IN
  IF n[nd].left = Nil
  THEN LET child == n[nd].right
           m1 == unlink(transplant(m, nd, child), nd)
       IN IF n[nd].color = Black THEN fixDelete(m1, child) ELSE [m |-> m1, panic |-> FALSE]
  ELSE IF n[nd].right = Nil
  THEN LET child == n[nd].left
           m1 == unlink(transplant(m, nd, child), nd)
       IN IF n[nd].color = Black THEN fixDelete(m1, child) ELSE [m |-> m1, panic |-> FALSE]
  ELSE LET successor == minimum(m, n[nd].right)
           originalColor == n[successor].color
           child == n[successor].right
           m1 == IF n[successor].parent = nd
                 THEN IF child # Nil
                      THEN [m EXCEPT !.node = [n EXCEPT ![child].parent = successor]]
                      ELSE m
                 ELSE LET t == transplant(m, successor, child)
                          r == t.node[nd].right
                      IN [t EXCEPT !.node = [t.node EXCEPT ![successor].right = r,
                                                            ![r].parent = successor]]
           m2 == transplant(m1, nd, successor)
           l  == m2.node[nd].left
           m3 == [m2 EXCEPT !.node = [m2.node EXCEPT ![successor].left = l,
                                                     ![l].parent = successor,
                                                     ![successor].color = m2.node[nd].color]]
           m4 == unlink(m3, nd)
       IN IF originalColor = Black THEN fixDelete(m4, child) ELSE [m |-> m4, panic |-> FALSE]

\* Delete: [m, panic]; an absent key leaves the map as it is.
Delete(m, key) ==
  LET d == descend(m, m.root, Nil, key) IN
  IF d.found = Nil THEN [m |-> m, panic |-> FALSE]
  ELSE deleteNode([m EXCEPT !.size = m.size - 1], d.found)

Empty(m) == m.size = 0

RECURSIVE leftmost(_, _)
leftmost(m, nd) == IF m.node[nd].left # Nil THEN leftmost(m, m.node[nd].left) ELSE nd

RECURSIVE rightmost(_, _)
rightmost(m, nd) == IF m.node[nd].right # Nil THEN rightmost(m, m.node[nd].right) ELSE nd

\* Begin().Key(): the key of the leftmost node (the map is not empty).
Begin(m) == leftmost(m, m.root)

\* Last(): the key of the rightmost node (the map is not empty).
Last(m) == rightmost(m, m.root)

\* The iterator of Begin(): a pointer to the leftmost node, nil for the
\* empty map.
IteratorBegin(m) == IF m.root = Nil THEN Nil ELSE leftmost(m, m.root)

\* Valid(): the iterator points to a node.  The method is called by
\* OrderInfo and is not in rbmap.go; it is the test of Iterator.First().
Valid(current) == current # Nil

\* The second branch of Iterator.Next: the first ancestor that has the
\* current node in its left subtree.
RECURSIVE ancestor(_, _)
ancestor(m, current) ==
  LET parent == m.node[current].parent IN
  IF parent # Nil /\ current = m.node[parent].right
  THEN ancestor(m, parent)
  ELSE parent

\* Iterator.Next: the next node in order, nil after the last.
IteratorNext(m, current) ==
  IF current = Nil THEN Nil
  ELSE IF m.node[current].right # Nil THEN leftmost(m, m.node[current].right)
  ELSE ancestor(m, current)

\* The keys that the loop  for it := m.Begin(); it.Valid(); it.Next()
\* visits, in the order of the visits.
RECURSIVE visit(_, _)
visit(m, current) ==
  IF Valid(current) THEN <<current>> \o visit(m, IteratorNext(m, current)) ELSE <<>>
Walk(m) == visit(m, IteratorBegin(m))

(***************************************************************************)
(* pkg/ds/list: the level list.  A LinkedList[Order] is the sequence of    *)
(* its values from head to tail; index i of the code is position i + 1.    *)
(***************************************************************************)
NewLinkedList == <<>>
Size(l) == Len(l)
IsEmpty(l) == Len(l) = 0
Append_(l, value) == Append(l, value)
DeleteHead(l) == IF l = <<>> THEN l ELSE Tail(l)
DeleteTail(l) == IF l = <<>> THEN l ELSE SubSeq(l, 1, Len(l) - 1)
RemoveAt(l, index) ==
  IF index < 0 \/ index >= Len(l) THEN l
  ELSE IF index = 0 THEN DeleteHead(l)
  ELSE IF index = Len(l) - 1 THEN DeleteTail(l)
  ELSE SubSeq(l, 1, index) \o SubSeq(l, index + 2, Len(l))

(***************************************************************************)
(* pkg/orderbook: Order, OrderModify, Trade.                               *)
(***************************************************************************)
\* NewOrder without the initialisation of remainingQuantity.
NewOrder_NoRemaining(orderType, orderId, side, price, quantity) ==
  [orderType |-> orderType, orderId |-> orderId, side |-> side, price |-> price,
   initialQuantity |-> quantity, remainingQuantity |-> 0]

NewOrder(orderType, orderId, side, price, quantity) ==
  [orderType |-> orderType, orderId |-> orderId, side |-> side, price |-> price,
   initialQuantity |-> quantity, remainingQuantity |-> quantity]

NewMarketOrder(orderId, side, quantity) == NewOrder(Market, orderId, side, 0, quantity)

FilledQuantity(o) == o.initialQuantity - o.remainingQuantity
IsFilled(o) == o.remainingQuantity = 0

\* Fill: quantity > remainingQuantity is the error return; otherwise the
\* remaining quantity goes down by quantity.
FillFails(o, quantity) == quantity > o.remainingQuantity
Fill(o, quantity) == [o EXCEPT !.remainingQuantity = o.remainingQuantity - quantity]

ToGoodTillCancel(o, price) == [o EXCEPT !.price = price, !.orderType = GoodTillCancel]

NewOrderModify(orderId, price, side, quantity) ==
  [orderId |-> orderId, side |-> side, price |-> price, quantity |-> quantity]

ToOrder(modify, orderType) ==
  [orderType |-> orderType, orderId |-> modify.orderId, side |-> modify.side,
   price |-> modify.price, initialQuantity |-> modify.quantity,
   remainingQuantity |-> modify.quantity]

Min(a, b) == IF a < b THEN a ELSE b

(***************************************************************************)
(* pkg/orderbook: the Orderbook.  bids and asks are the two ordered maps   *)
(* Price -> Orders, orders is the index OrderId -> OrderEntry.  pc is the  *)
(* position of the caller: "idle" between calls, "match" inside the loop   *)
(* of MatchOrders, "panic" after a nil dereference ended the process.      *)
(* trades is the Trades slice of the running or the last MatchOrders, err  *)
(* tells whether the last call returned an error.                          *)
(* traded[id] is the sum of the quantities of the trades that name id      *)
(* since id was last admitted (a history variable).                        *)
(* call is the last call a caller made and its argument (a history         *)
(* variable that only CallSpec and DeepSpec write).                        *)
(* mu is the holder of the mutex o.m (Unlocked when free) and th[t] is     *)
(* the position and the locals of thread t; only ThreadSpec and            *)
(* WorkerSpec write them.                                                  *)
(* shutdown is the flag o.shutdown, cond the state of o.cond (its mutex L, *)
(* whether the worker is in its list of waiters, and who woke the worker   *)
(* last) and timer the position of the goroutine of lines 338-344; only    *)
(* WorkerSpec writes them.                                                 *)
(***************************************************************************)
VARIABLES bids, asks, orders, pc, trades, err, traded, call, mu, th, shutdown, cond, timer

vars == <<bids, asks, orders, pc, trades, err, traded, call, mu, th, shutdown, cond, timer>>

\* The variables of the threads.
wvars == <<shutdown, cond, timer>>
tvars == <<mu, th, wvars>>

\* The book as one value, for the operators that compute on it.
Book == [bids |-> bids, asks |-> asks, orders |-> orders]

\* delete(o.orders, id)
deleteEntry(idx, id) == [k \in DOMAIN idx \ {id} |-> idx[k]]

\* o.orders[id] = entry
putEntry(idx, id, entry) == [k \in DOMAIN idx \cup {id} |-> IF k = id THEN entry ELSE idx[k]]

\* Size(): len(o.orders)
BookSize(bk) == Cardinality(DOMAIN bk.orders)

\* it.Value() / Get(): the Orders stored under a key, by value.
Level(m, price) == Get(m, price, NewLinkedList)

CanMatch(bk, side, price) ==
  IF side = Buy
  THEN IF Empty(bk.asks) THEN FALSE ELSE price >= Begin(bk.asks)
  ELSE IF Empty(bk.bids) THEN FALSE ELSE price <= Begin(bk.bids)

\* CanFullyFill: false when CanMatch is false, and false after it.
CanFullyFill(bk, side, price, quantity) ==
  IF ~CanMatch(bk, side, price) THEN FALSE ELSE FALSE

\* Promote without the error return for an empty opposite map.
Promote_NoReject(bk, order) ==
  IF order.side = Buy /\ ~Empty(bk.asks)
  THEN [err |-> FALSE, order |-> ToGoodTillCancel(order, Last(bk.asks))]
  ELSE IF order.side = Sell /\ ~Empty(bk.bids)
  THEN [err |-> FALSE, order |-> ToGoodTillCancel(order, Last(bk.bids))]
  ELSE [err |-> FALSE, order |-> order]

\* The Market branch of AddOrder: the promoted order, or the error return.
Promote(bk, order) ==
  IF order.side = Buy /\ ~Empty(bk.asks)
  THEN [err |-> FALSE, order |-> ToGoodTillCancel(order, Last(bk.asks))]
  ELSE IF order.side = Sell /\ ~Empty(bk.bids)
  THEN [err |-> FALSE, order |-> ToGoodTillCancel(order, Last(bk.bids))]
  ELSE [err |-> TRUE, order |-> order]

\* The level lookup and the index store of AddOrder (lines 225-245): the
\* level is created empty when the price has none, the order is stored in
\* the index with location = Size() - 1 of the level; nothing is appended
\* to the level.
Place(bk, order) ==
  LET m == IF order.side = Buy THEN bk.bids ELSE bk.asks
      store(m1) ==
        LET lv == Level(m1, order.price)
            entry == [order |-> order, location |-> Size(lv) - 1]
        IN [bids   |-> IF order.side = Buy THEN m1 ELSE bk.bids,
            asks   |-> IF order.side = Buy THEN bk.asks ELSE m1,
            orders |-> putEntry(bk.orders, order.orderId, entry)]
  IN store(IF ~Has(m, order.price) THEN Insert(m, order.price, NewLinkedList) ELSE m)

\* Admit without the test for an id that is already in the index.
Admit_NoDuplicateTest(bk, order) ==
  LET admit(pr) ==
        IF pr.err THEN [err |-> TRUE, bk |-> bk]
        ELSE IF pr.order.orderType = FillAndKill
                /\ ~CanMatch(bk, pr.order.side, pr.order.price)
        THEN [err |-> TRUE, bk |-> bk]
        ELSE [err |-> FALSE, bk |-> Place(bk, pr.order)]
  IN admit(IF order.orderType = Market THEN Promote(bk, order)
           ELSE [err |-> FALSE, order |-> order])

\* AddOrder up to its call of MatchOrders: [err, bk].
Admit(bk, order) ==
  IF order.orderId \in DOMAIN bk.orders THEN [err |-> TRUE, bk |-> bk]
  ELSE LET admit(pr) ==
             IF pr.err THEN [err |-> TRUE, bk |-> bk]
             ELSE IF pr.order.orderType = FillAndKill
                     /\ ~CanMatch(bk, pr.order.side, pr.order.price)
             THEN [err |-> TRUE, bk |-> bk]
             ELSE [err |-> FALSE, bk |-> Place(bk, pr.order)]
       IN admit(IF order.orderType = Market THEN Promote(bk, order)
                ELSE [err |-> FALSE, order |-> order])

\* One trade and its effect on the history variable.
NewTrade(bid, ask, quantity) ==
  [bidTrade |-> [orderId |-> bid.orderId, price |-> bid.price, quantity |-> quantity],
   askTrade |-> [orderId |-> ask.orderId, price |-> ask.price, quantity |-> quantity]]

addTraded(td, t) ==
  [id \in DOMAIN td |->
     td[id] + (IF id = t.bidTrade.orderId THEN t.bidTrade.quantity ELSE 0)
            + (IF id = t.askTrade.orderId THEN t.askTrade.quantity ELSE 0)]

\* The FillAndKill step at the end of the inner loop, for one side: the new
\* head of the local level is dropped when it is a FillAndKill order.
killHead(lv, idx) ==
  IF ~IsEmpty(lv) /\ Head(lv).orderType = FillAndKill
  THEN [lv |-> DeleteHead(lv), orders |-> deleteEntry(idx, Head(lv).orderId)]
  ELSE [lv |-> lv, orders |-> idx]

\* The inner loop of MatchOrders (lines 106-177).  bidsL and asksL are the
\* local copies `bids` and `asks` of the two Orders values: Head() returns an
\* Order by value, so Fill acts on the locals bid and ask, and DeleteHead
\* acts on the local lists; the maps lose a key when a local list is empty.
\* st = [bidsL, asksL, bids, asks, orders, trades, traded, status].
RECURSIVE matchLevel(_, _, _)
matchLevel(st, bidPrice, askPrice) ==
  IF ~(Size(st.bidsL) > 0 /\ Size(st.asksL) > 0) THEN st
  ELSE
    LET bid0 == Head(st.bidsL)
        ask0 == Head(st.asksL)
        quantity == Min(bid0.remainingQuantity, ask0.remainingQuantity)
    IN IF FillFails(bid0, quantity) \/ FillFails(ask0, quantity)
       THEN [st EXCEPT !.status = "error"]
       ELSE
         LET bid  == Fill(bid0, quantity)
             ask  == Fill(ask0, quantity)
             bl1  == IF IsFilled(bid) THEN DeleteHead(st.bidsL) ELSE st.bidsL
             ix1  == IF IsFilled(bid) THEN deleteEntry(st.orders, bid.orderId) ELSE st.orders
             al1  == IF IsFilled(ask) THEN DeleteHead(st.asksL) ELSE st.asksL
             ix2  == IF IsFilled(ask) THEN deleteEntry(ix1, ask.orderId) ELSE ix1
             kill(db, da, kb, ka) ==
               LET t == NewTrade(bid, ask, quantity)
               IN matchLevel([st EXCEPT !.bidsL = kb.lv, !.asksL = ka.lv,
                                        !.orders = ka.orders,
                                        !.bids = db.m, !.asks = da.m,
                                        !.trades = Append(st.trades, t),
                                        !.traded = addTraded(st.traded, t)],
                             bidPrice, askPrice)
             trade(db, da, kb) == kill(db, da, kb, killHead(al1, kb.orders))
             askKey(db, da) ==
               IF db.panic \/ da.panic
               THEN [st EXCEPT !.bidsL = bl1, !.asksL = al1, !.orders = ix2,
                               !.bids = db.m, !.asks = da.m, !.status = "panic"]
               ELSE trade(db, da, killHead(bl1, ix2))
             bidKey(db) ==
               askKey(db, IF db.panic THEN [m |-> st.asks, panic |-> FALSE]
                          ELSE IF IsEmpty(al1) THEN Delete(st.asks, askPrice)
                          ELSE [m |-> st.asks, panic |-> FALSE])
         IN bidKey(IF IsEmpty(bl1) THEN Delete(st.bids, bidPrice)
                   ELSE [m |-> st.bids, panic |-> FALSE])

\* The exit test of the outer loop of MatchOrders (lines 89-103).
MatchDone(bk) ==
  \/ Empty(bk.bids)
  \/ Empty(bk.asks)
  \/ Begin(bk.bids) < Begin(bk.asks)

\* One iteration of the outer loop that does not exit: the best levels are
\* read and the inner loop runs on them.
MatchIter(bk, ts, td) ==
  LET bidPrice == Begin(bk.bids)
      askPrice == Begin(bk.asks)
  IN matchLevel([bidsL |-> Level(bk.bids, bidPrice), asksL |-> Level(bk.asks, askPrice),
                 bids |-> bk.bids, asks |-> bk.asks, orders |-> bk.orders,
                 trades |-> ts, traded |-> td, status |-> "loop"],
                bidPrice, askPrice)

\* MatchOrders as one computation: the outer loop runs until its exit test
\* holds ("return"), Fill fails ("error"), a map operation panics ("panic"),
\* or an iteration leaves the book and the trades as they were, after which
\* every later iteration does the same ("spin").
RECURSIVE MatchOrdersRun(_, _, _)
MatchOrdersRun(bk, ts, td) ==
  IF MatchDone(bk)
  THEN [status |-> "return", bk |-> bk, trades |-> ts, traded |-> td]
  ELSE LET next(st, nb) ==
             IF st.status # "loop"
             THEN [status |-> st.status, bk |-> nb, trades |-> st.trades,
                   traded |-> st.traded]
             ELSE IF nb = bk /\ st.trades = ts
             THEN [status |-> "spin", bk |-> nb, trades |-> ts, traded |-> td]
             ELSE MatchOrdersRun(nb, st.trades, st.traded)
           iter(st) == next(st, [bids |-> st.bids, asks |-> st.asks, orders |-> st.orders])
       IN iter(MatchIter(bk, ts, td))

\* AddOrder as one computation: "reject" is the error return of the
\* admission, otherwise the outcome of MatchOrders.
AddOrderRun(bk, order) ==
  LET matched(m) == [status |-> m.status, bk |-> m.bk, trades |-> m.trades]
      admitted(r) ==
        IF r.err
        THEN [status |-> "reject", bk |-> bk, trades |-> <<>>]
        ELSE matched(MatchOrdersRun(r.bk, <<>>, [id \in OrderIdSet |-> 0]))
  IN admitted(Admit(bk, order))

\* cancelOrder (lines 266-290): [err, panic, bk].  The Orders value is a
\* copy of the one in the map: RemoveAt acts on the copy, and the key is
\* deleted when the copy is empty.
cancelOrder(bk, orderId) ==
  IF orderId \notin DOMAIN bk.orders THEN [err |-> TRUE, panic |-> FALSE, bk |-> bk]
  ELSE LET entry == bk.orders[orderId]
           order == entry.order
           ix    == deleteEntry(bk.orders, orderId)
           m     == IF order.side = Buy THEN bk.bids ELSE bk.asks
           lv    == RemoveAt(Level(m, order.price), entry.location)
           done(d) ==
             [err |-> FALSE, panic |-> d.panic,
              bk |-> [bids   |-> IF order.side = Buy THEN d.m ELSE bk.bids,
                      asks   |-> IF order.side = Buy THEN bk.asks ELSE d.m,
                      orders |-> ix]]
       IN done(IF IsEmpty(lv) THEN Delete(m, order.price)
               ELSE [m |-> m, panic |-> FALSE])

\* The loop of CancelOrders (lines 258-263): stops at the first error.
RECURSIVE cancelAll(_, _)
cancelAll(bk, orderIds) ==
  IF orderIds = <<>> THEN [err |-> FALSE, panic |-> FALSE, bk |-> bk]
  ELSE LET rest(r) == IF r.err \/ r.panic THEN r ELSE cancelAll(r.bk, Tail(orderIds))
       IN rest(cancelOrder(bk, Head(orderIds)))

\* The inner loop of OrderInfo (lines 374-378): the sum of the remaining
\* quantities of the orders of one level, from its head to its tail.
RECURSIVE levelQuantity(_)
levelQuantity(l) ==
  IF l = <<>> THEN 0 ELSE Head(l).remainingQuantity + levelQuantity(Tail(l))

\* One loop of OrderInfo (lines 370-381, 383-394): a LevelInfo for every key
\* that the iterator visits.
LevelsInfo(m) ==
  LET walk(w) == [i \in 1..Len(w) |->
                    [price |-> w[i], quantity |-> levelQuantity(m.node[w[i]].value)]]
  IN walk(Walk(m))

\* OrderInfo (lines 365-400).
OrderInfo(bk) == [bids |-> LevelsInfo(bk.bids), asks |-> LevelsInfo(bk.asks)]

(***************************************************************************)
(* The inputs of the calls.                                                *)
(***************************************************************************)
\* The order types of the orders submitted under Spec.  GoodForDay and
\* FillOrKill orders take the path of GoodTillCancel orders through AddOrder,
\* MatchOrders and cancelOrder (no line of them tests for either type).
InputTypes == {Market, GoodTillCancel, FillAndKill}

OrdersOf(types) ==
  { NewOrder(t, id, s, p, q) :
      t \in types \ {Market}, id \in OrderIdSet, s \in Side,
      p \in PriceSet, q \in QuantitySet }
  \cup { NewMarketOrder(id, s, q) :
           id \in IF Market \in types THEN OrderIdSet ELSE {},
           s \in Side, q \in QuantitySet }

OrderInputs == OrdersOf(InputTypes)

ModifyInputs ==
  { NewOrderModify(id, p, s, q) :
      id \in OrderIdSet, p \in PriceSet, s \in Side, q \in QuantitySet }

RECURSIVE SeqsUpTo(_, _)
SeqsUpTo(S, n) ==
  IF n = 0 THEN {<<>>}
  ELSE LET shorter == SeqsUpTo(S, n - 1)
       IN shorter \cup { Append(q, x) : q \in shorter, x \in S }

OrderIdsInputs == SeqsUpTo(OrderIdSet, MaxBatch)

(***************************************************************************)
(* NewOrderbook and the calls.                                             *)
(***************************************************************************)
\* No call made yet.
NoCall == [op |-> "none", arg |-> Nil]

\* The threads: two callers of the public operations and the goroutine that
\* Start launches on PruneGoodForDayOrders.
Callers == {"A", "B"}
Worker == "W"
Threads == Callers \cup {Worker}

\* The engine mutex o.m holds the name of the thread that locked it.
Unlocked == "unlocked"

\* Start has run: the callers are between calls, the worker is in the first
\* pass of its loop, about to call cond.Wait (line 346).
\* sync.NewCond(&sync.Mutex{}) in Start: the mutex L is unlocked, no
\* goroutine waits, nobody has woken the worker.
NewCond == [L |-> FALSE, waiting |-> FALSE, woken |-> "none"]

NoThreads ==
  [t \in Threads |-> [pc |-> IF t = Worker THEN "w_wait_call" ELSE "idle", arg |-> Nil]]

Init ==
  /\ bids = NewMap(Ascending)
  /\ asks = NewMap(Descending)
  /\ orders = [k \in {} |-> Nil]
  /\ pc = "idle"
  /\ trades = <<>>
  /\ err = FALSE
  /\ traded = [id \in OrderIdSet |-> 0]
  /\ call = NoCall
  /\ mu = Unlocked
  /\ th = NoThreads
  /\ shutdown = FALSE
  /\ cond = NewCond
  /\ timer = "none"

setBook(bk) ==
  /\ bids' = bk.bids
  /\ asks' = bk.asks
  /\ orders' = bk.orders

\* AddOrder up to the call of MatchOrders.  An admitted id starts a new
\* history of trades.
AddOrder(order) ==
  /\ pc = "idle"
  /\ \E r \in {Admit(Book, order)} :
        /\ setBook(r.bk)
        /\ err' = r.err
        /\ pc' = IF r.err THEN "idle" ELSE "match"
        /\ traded' = IF r.err THEN traded ELSE [traded EXCEPT ![order.orderId] = 0]
  /\ trades' = <<>>

\* One pass through the outer loop of MatchOrders: the return when the exit
\* test holds, one iteration otherwise.
MatchOrders ==
  /\ pc = "match"
  /\ IF MatchDone(Book)
     THEN /\ pc' = "idle"
          /\ err' = FALSE
          /\ UNCHANGED <<bids, asks, orders, trades, traded>>
     ELSE \E st \in {MatchIter(Book, trades, traded)} :
             /\ setBook(st)
             /\ trades' = st.trades
             /\ traded' = st.traded
             /\ pc' = CASE st.status = "panic" -> "panic"
                        [] st.status = "error" -> "idle"
                        [] OTHER -> "match"
             /\ err' = (st.status = "error")

CancelOrder(orderId) ==
  /\ pc = "idle"
  /\ \E r \in {cancelOrder(Book, orderId)} :
        /\ setBook(r.bk)
        /\ err' = r.err
        /\ pc' = IF r.panic THEN "panic" ELSE "idle"
  /\ trades' = <<>>
  /\ UNCHANGED traded

CancelOrders(orderIds) ==
  /\ pc = "idle"
  /\ \E r \in {cancelAll(Book, orderIds)} :
        /\ setBook(r.bk)
        /\ err' = r.err
        /\ pc' = IF r.panic THEN "panic" ELSE "idle"
  /\ trades' = <<>>
  /\ UNCHANGED traded

\* ModifyOrder (lines 292-300) with one caller: the existence test, then
\* CancelOrder, then AddOrder of the replacement with the type of the order
\* it replaces.
ModifyOrder(modify) ==
  /\ pc = "idle"
  /\ IF modify.orderId \notin DOMAIN orders
     THEN /\ err' = TRUE
          /\ pc' = "idle"
          /\ UNCHANGED <<bids, asks, orders, traded>>
     ELSE LET existingOrder == orders[modify.orderId].order
          IN \E c \in {cancelOrder(Book, modify.orderId)} :
               IF c.panic
               THEN /\ setBook(c.bk)
                    /\ err' = FALSE
                    /\ pc' = "panic"
                    /\ UNCHANGED traded
               ELSE \E r \in {Admit(c.bk, ToOrder(modify, existingOrder.orderType))} :
                      /\ setBook(r.bk)
                      /\ err' = r.err
                      /\ pc' = IF r.err THEN "idle" ELSE "match"
                      /\ traded' = IF r.err THEN traded
                                   ELSE [traded EXCEPT ![modify.orderId] = 0]
  /\ trades' = <<>>

Next ==
  \/ \E order \in OrderInputs : AddOrder(order) /\ UNCHANGED <<call, tvars>>
  \/ MatchOrders /\ UNCHANGED <<call, tvars>>
  \/ \E orderId \in OrderIdSet : CancelOrder(orderId) /\ UNCHANGED <<call, tvars>>
  \/ \E orderIds \in OrderIdsInputs : CancelOrders(orderIds) /\ UNCHANGED <<call, tvars>>
  \/ \E modify \in ModifyInputs : ModifyOrder(modify) /\ UNCHANGED <<call, tvars>>

Spec == Init /\ [][Next]_vars

\* The caller's thread keeps running: the loop of MatchOrders takes its
\* next step whenever that step changes the state.
FairSpec == Spec /\ WF_vars(MatchOrders /\ UNCHANGED <<call, tvars>>)

\* The calls of CallSpec: orders of every type that AddOrder tests for and
\* of GoodTillCancel, all of quantity 1 (no call changes a remaining
\* quantity, so the quantities only label the orders).
CallTypes == {Market, GoodTillCancel, FillAndKill, FillOrKill}
CallOrderInputs == { o \in OrdersOf(CallTypes) : o.initialQuantity = 1 }
CallModifyInputs == { m \in ModifyInputs : m.quantity = 1 }

\* The same calls as Next, each recorded in `call` with its argument.
CallNext ==
  \/ \E order \in CallOrderInputs :
       AddOrder(order) /\ call' = [op |-> "AddOrder", arg |-> order] /\ UNCHANGED tvars
  \/ MatchOrders /\ UNCHANGED <<call, tvars>>
  \/ \E orderId \in OrderIdSet :
       CancelOrder(orderId) /\ call' = [op |-> "CancelOrder", arg |-> orderId]
         /\ UNCHANGED tvars
  \/ \E orderIds \in OrderIdsInputs :
       CancelOrders(orderIds) /\ call' = [op |-> "CancelOrders", arg |-> orderIds]
         /\ UNCHANGED tvars
  \/ \E modify \in CallModifyInputs :
       ModifyOrder(modify) /\ call' = [op |-> "ModifyOrder", arg |-> modify]
         /\ UNCHANGED tvars

CallSpec == Init /\ [][CallNext]_vars

\* The calls of DeepSpec: GoodTillCancel buy orders of quantity 1 with one
\* more id and two more prices than the other specifications use, so that
\* one map holds four keys and a Delete reaches fixDelete.
DeepIds == 1..(MaxId + 1)
DeepPrices == 1..(MaxPrice + 2)
DeepOrderInputs ==
  { NewOrder(GoodTillCancel, id, Buy, p, 1) : id \in DeepIds, p \in DeepPrices }
DeepModifyInputs ==
  { NewOrderModify(id, p, Buy, 1) : id \in DeepIds, p \in DeepPrices }
DeepOrderIdsInputs == SeqsUpTo(DeepIds, MaxBatch)

DeepInit ==
  /\ bids = NewMap(Ascending)
  /\ asks = NewMap(Descending)
  /\ orders = [k \in {} |-> Nil]
  /\ pc = "idle"
  /\ trades = <<>>
  /\ err = FALSE
  /\ traded = [id \in DeepIds |-> 0]
  /\ call = NoCall
  /\ mu = Unlocked
  /\ th = NoThreads
  /\ shutdown = FALSE
  /\ cond = NewCond
  /\ timer = "none"

DeepNext ==
  \/ \E order \in DeepOrderInputs :
       AddOrder(order) /\ call' = [op |-> "AddOrder", arg |-> order] /\ UNCHANGED tvars
  \/ MatchOrders /\ UNCHANGED <<call, tvars>>
  \/ \E orderId \in DeepIds :
       CancelOrder(orderId) /\ call' = [op |-> "CancelOrder", arg |-> orderId]
         /\ UNCHANGED tvars
  \/ \E orderIds \in DeepOrderIdsInputs :
       CancelOrders(orderIds) /\ call' = [op |-> "CancelOrders", arg |-> orderIds]
         /\ UNCHANGED tvars
  \/ \E modify \in DeepModifyInputs :
       ModifyOrder(modify) /\ call' = [op |-> "ModifyOrder", arg |-> modify]
         /\ UNCHANGED tvars

DeepSpec == DeepInit /\ [][DeepNext]_vars

(***************************************************************************)
(* The threads.  A thread that calls o.m.Lock() waits at a "_lock"         *)
(* position, holds the mutex at the "_body" position that follows, and     *)
(* runs the body and the deferred Unlock in one step (nothing else can     *)
(* touch the engine while it holds the mutex, except the reads that take   *)
(* no lock).  pc = "panic" is the end of the process: a panic or a fatal   *)
(* error of the runtime.                                                   *)
(***************************************************************************)
\* The calls of ThreadSpec: GoodTillCancel and GoodForDay orders of quantity 1
\* at the lowest price, over all ids but the last; ModifyOrder may move an
\* order to any price of the buy side.
ThreadIds == OrderIdSet \ {MaxId}
ThreadOrderInputs ==
  { NewOrder(t, id, side, 1, 1) :
      t \in {GoodTillCancel, GoodForDay}, id \in ThreadIds, side \in Side }
ThreadModifyInputs ==
  { NewOrderModify(id, p, Buy, 1) : id \in ThreadIds, p \in PriceSet }
ThreadOrderIdsInputs == SeqsUpTo(ThreadIds, MaxBatch)

at(t, position) == th[t].pc = position
goto(t, position, arg) == th' = [th EXCEPT ![t] = [pc |-> position, arg |-> arg]]

\* The positions at which a thread is blocked in o.m.Lock(), and the position
\* it reaches with the mutex.
LockPositions ==
  {"add_lock", "cancel_lock", "cancels_lock", "modify_cancel_lock", "modify_add_lock",
   "w_lock"}
Locked(position) ==
  CASE position = "add_lock" -> "add_body"
    [] position = "cancel_lock" -> "cancel_body"
    [] position = "cancels_lock" -> "cancels_body"
    [] position = "modify_cancel_lock" -> "modify_cancel_body"
    [] position = "modify_add_lock" -> "modify_add_body"
    [] position = "w_lock" -> "w_collect"

\* The positions at which a thread holds the mutex and writes the index and
\* the maps.
WritePositions ==
  {"add_body", "cancel_body", "cancels_body", "modify_cancel_body", "modify_add_body"}

\* The positions at which a thread reads the index or the maps without the
\* mutex: Size (line 41), OrderInfo (lines 370-394) and the existence test
\* and the read of the existing order in ModifyOrder (lines 293-297).
ReadPositions == {"size_read", "info_read", "modify_check"}

\* A caller makes a call.
CallAddOrder(t, order) ==
  /\ pc = "idle" /\ at(t, "idle")
  /\ goto(t, "add_lock", order)
  /\ UNCHANGED <<bids, asks, orders, pc, trades, err, traded, call, mu>>

CallCancelOrder(t, orderId) ==
  /\ pc = "idle" /\ at(t, "idle")
  /\ goto(t, "cancel_lock", orderId)
  /\ UNCHANGED <<bids, asks, orders, pc, trades, err, traded, call, mu>>

CallCancelOrders(t, orderIds) ==
  /\ pc = "idle" /\ at(t, "idle")
  /\ goto(t, "cancels_lock", orderIds)
  /\ UNCHANGED <<bids, asks, orders, pc, trades, err, traded, call, mu>>

CallModifyOrder(t, modify) ==
  /\ pc = "idle" /\ at(t, "idle")
  /\ goto(t, "modify_check", modify)
  /\ UNCHANGED <<bids, asks, orders, pc, trades, err, traded, call, mu>>

CallSize(t) ==
  /\ pc = "idle" /\ at(t, "idle")
  /\ goto(t, "size_read", Nil)
  /\ UNCHANGED <<bids, asks, orders, pc, trades, err, traded, call, mu>>

CallOrderInfo(t) ==
  /\ pc = "idle" /\ at(t, "idle")
  /\ goto(t, "info_read", Nil)
  /\ UNCHANGED <<bids, asks, orders, pc, trades, err, traded, call, mu>>

\* o.m.Lock() returns: the mutex is free and the thread takes it.
Acquire(t) ==
  /\ pc = "idle" /\ th[t].pc \in LockPositions
  /\ mu = Unlocked
  /\ mu' = t
  /\ goto(t, Locked(th[t].pc), th[t].arg)
  /\ UNCHANGED <<bids, asks, orders, pc, trades, err, traded, call>>

\* The body of AddOrder under the mutex, for a call of AddOrder and for the
\* call at the end of ModifyOrder: the admission and MatchOrders.  A loop
\* that spins keeps the thread in it with the mutex; a panic ends the
\* process; otherwise the deferred Unlock runs and the call returns.
AddOrderBody(t) ==
  /\ pc = "idle" /\ th[t].pc \in {"add_body", "modify_add_body"} /\ mu = t
  /\ \E r \in {AddOrderRun(Book, th[t].arg)} :
       IF r.status = "spin"
       THEN /\ setBook(r.bk)
            /\ goto(t, "spin", Nil)
            /\ UNCHANGED <<pc, mu>>
       ELSE /\ setBook(r.bk)
            /\ pc' = IF r.status = "panic" THEN "panic" ELSE pc
            /\ mu' = Unlocked
            /\ goto(t, "idle", Nil)
  /\ UNCHANGED <<trades, err, traded, call>>

\* The body of CancelOrder under the mutex, for a call of CancelOrder and
\* for the call inside ModifyOrder, which drops the error (line 298) and
\* goes on to AddOrder with modify.ToOrder(existingOrder.OrderType()).
CancelOrderBody(t) ==
  /\ pc = "idle" /\ th[t].pc \in {"cancel_body", "modify_cancel_body"} /\ mu = t
  /\ LET inModify == at(t, "modify_cancel_body")
         orderId  == IF inModify THEN th[t].arg.modify.orderId ELSE th[t].arg
     IN \E r \in {cancelOrder(Book, orderId)} :
          /\ setBook(r.bk)
          /\ pc' = IF r.panic THEN "panic" ELSE pc
          /\ mu' = Unlocked
          /\ IF inModify
             THEN goto(t, "modify_add_lock",
                       ToOrder(th[t].arg.modify, th[t].arg.orderType))
             ELSE goto(t, "idle", Nil)
  /\ UNCHANGED <<trades, err, traded, call>>

\* The body of CancelOrders under the mutex.  A caller returns; the worker
\* returns from PruneGoodForDayOrders on an error (line 360) and goes round
\* its loop otherwise.
CancelOrdersBody(t) ==
  /\ pc = "idle" /\ at(t, "cancels_body") /\ mu = t
  /\ \E r \in {cancelAll(Book, th[t].arg)} :
       /\ setBook(r.bk)
       /\ pc' = IF r.panic THEN "panic" ELSE pc
       /\ mu' = Unlocked
       /\ goto(t, IF t # Worker THEN "idle"
                  ELSE IF r.err THEN "w_done" ELSE "w_wait_call", Nil)
  /\ UNCHANGED <<trades, err, traded, call>>

\* Some other thread is writing the index and the maps.
WriterBeside(t) == \E u \in Threads \ {t} : th[u].pc \in WritePositions

\* The start of ModifyOrder (lines 293-297), without the mutex: the existence
\* test and the read of the order to replace.
ModifyCheck(t) ==
  /\ pc = "idle" /\ at(t, "modify_check")
  /\ LET modify == th[t].arg
     IN IF modify.orderId \notin DOMAIN orders
        THEN goto(t, "idle", Nil)
        ELSE goto(t, "modify_cancel_lock",
                  [modify |-> modify, orderType |-> orders[modify.orderId].order.orderType])
  /\ UNCHANGED <<bids, asks, orders, pc, trades, err, traded, call, mu>>

\* The same read of the Go map o.orders while another thread writes it: the
\* runtime may end the process ("concurrent map read and map write").
ModifyCheckFatal(t) ==
  /\ pc = "idle" /\ at(t, "modify_check")
  /\ WriterBeside(t)
  /\ pc' = "panic"
  /\ UNCHANGED <<bids, asks, orders, trades, err, traded, call, mu, th>>

\* Size and OrderInfo return what they read, without the mutex.
ReadReturns(t) ==
  /\ pc = "idle" /\ th[t].pc \in {"size_read", "info_read"}
  /\ goto(t, "idle", Nil)
  /\ UNCHANGED <<bids, asks, orders, pc, trades, err, traded, call, mu>>

\* The worker calls cond.Wait() (line 346) without holding cond.L.  Wait
\* unlocks cond.L: that succeeds when the goroutine of lines 338-344 has
\* locked it by then, and is the fatal error "unlock of unlocked mutex"
\* otherwise.
WorkerWait ==
  /\ pc = "idle" /\ at(Worker, "w_wait_call")
  /\ \/ goto(Worker, "w_waiting", Nil) /\ UNCHANGED pc
     \/ pc' = "panic" /\ UNCHANGED th
  /\ UNCHANGED <<bids, asks, orders, trades, err, traded, call, mu>>

\* The timer goroutine signals and the worker wakes: Wait locks cond.L again
\* and the goroutine's deferred Unlock runs; when the Unlock comes first it
\* is the same fatal error.
WorkerWake ==
  /\ pc = "idle" /\ at(Worker, "w_waiting")
  /\ \/ goto(Worker, "w_lock", Nil) /\ UNCHANGED pc
     \/ pc' = "panic" /\ UNCHANGED th
  /\ UNCHANGED <<bids, asks, orders, trades, err, traded, call, mu>>

\* The sequences that hold every element of S once.
Orderings(S) ==
  { q \in SeqsUpTo(S, Cardinality(S)) :
      Len(q) = Cardinality(S) /\ { q[i] : i \in 1..Len(q) } = S }

\* The block of lines 349-358 under the mutex: the ids of the GoodForDay
\* orders, in the order the map iteration gives them.  The Unlock is
\* deferred to the return of PruneGoodForDayOrders, so the worker goes on to
\* CancelOrders (line 359) with the mutex.
WorkerCollect ==
  /\ pc = "idle" /\ at(Worker, "w_collect") /\ mu = Worker
  /\ \E orderIds \in Orderings({ id \in DOMAIN orders :
                                  orders[id].order.orderType = GoodForDay }) :
       goto(Worker, "cancels_lock", orderIds)
  /\ UNCHANGED <<bids, asks, orders, pc, trades, err, traded, call, mu>>

\* The steps of one thread.
CallerStep(t) ==
  \/ \E order \in ThreadOrderInputs : CallAddOrder(t, order)
  \/ \E orderId \in ThreadIds : CallCancelOrder(t, orderId)
  \/ \E orderIds \in ThreadOrderIdsInputs : CallCancelOrders(t, orderIds)
  \/ \E modify \in ThreadModifyInputs : CallModifyOrder(t, modify)
  \/ CallSize(t)
  \/ CallOrderInfo(t)
  \/ ModifyCheck(t)
  \/ ModifyCheckFatal(t)
  \/ ReadReturns(t)

LockedStep(t) ==
  \/ Acquire(t)
  \/ AddOrderBody(t)
  \/ CancelOrderBody(t)
  \/ CancelOrdersBody(t)

WorkerStep ==
  \/ WorkerWait
  \/ WorkerWake
  \/ WorkerCollect

ThreadNext ==
  \/ (\E t \in Callers : CallerStep(t)) /\ UNCHANGED wvars
  \/ (\E t \in Threads : LockedStep(t)) /\ UNCHANGED wvars
  \/ WorkerStep /\ UNCHANGED wvars

ThreadSpec == Init /\ [][ThreadNext]_vars

(***************************************************************************)
(* The ordered map by itself: Insert and Delete calls on the two maps of   *)
(* the engine (one Ascending, one Descending), with any key of DeepPrices  *)
(* and any value of MapValues.  call records the call that was made.       *)
(***************************************************************************)
MapValues == {NewLinkedList, <<NewOrder(GoodTillCancel, 1, Buy, 1, 1)>>}

MapOf(side) == IF side = Buy THEN bids ELSE asks

setMap(side, m) ==
  /\ bids' = IF side = Buy THEN m ELSE bids
  /\ asks' = IF side = Buy THEN asks ELSE m

MapInsert(side, key, value) ==
  /\ pc = "idle"
  /\ setMap(side, Insert(MapOf(side), key, value))
  /\ call' = [op |-> "Insert", arg |-> [side |-> side, key |-> key, value |-> value]]
  /\ UNCHANGED <<orders, pc, trades, err, traded, tvars>>

MapDelete(side, key) ==
  /\ pc = "idle"
  /\ \E r \in {Delete(MapOf(side), key)} :
       /\ setMap(side, r.m)
       /\ pc' = IF r.panic THEN "panic" ELSE pc
  /\ call' = [op |-> "Delete", arg |-> [side |-> side, key |-> key]]
  /\ UNCHANGED <<orders, trades, err, traded, tvars>>

MapNext ==
  \/ \E side \in Side : \E key \in DeepPrices : \E value \in MapValues :
       MapInsert(side, key, value)
  \/ \E side \in Side : \E key \in DeepPrices : MapDelete(side, key)

MapSpec == Init /\ [][MapNext]_vars

(***************************************************************************)
(* The expiry worker with Shutdown.  One pass of the loop of                *)
(* PruneGoodForDayOrders, step by step: the test of the flag (line 331),   *)
(* the go statement of the timer goroutine (338-344), cond.Wait (346), the *)
(* collection under o.m (348-358) and CancelOrders (359).  cond.Wait is    *)
(* sync.Cond.Wait: it adds the caller to the list of waiters, unlocks L,   *)
(* parks until a Signal takes it off the list, and locks L again.          *)
(***************************************************************************)
\* The thread that calls the engine in WorkerSpec.
Operators == {"A"}

\* o.cond.Signal(): the waiter, if there is one, leaves the list and is
\* woken; a Signal with nobody on the list is lost.
Signal(by) ==
  IF cond.waiting THEN [cond EXCEPT !.waiting = FALSE, !.woken = by] ELSE cond

\* Lines 331-344: the worker returns when the flag is set; otherwise it
\* starts the timer goroutine and goes on to cond.Wait.
WorkerCheck ==
  /\ pc = "idle" /\ at(Worker, "w_wait_call")
  /\ IF shutdown
     THEN goto(Worker, "w_done", Nil) /\ UNCHANGED timer
     ELSE goto(Worker, "w_wait", Nil) /\ timer' = "t_lock"
  /\ UNCHANGED <<bids, asks, orders, pc, trades, err, traded, call, mu, shutdown, cond>>

\* cond.Wait, first half: the worker joins the list of waiters and unlocks
\* L, which it never locked.  That unlocks the timer goroutine's lock when
\* the goroutine has taken it, and is the fatal error "sync: unlock of
\* unlocked mutex" when it has not.
WaitEnter ==
  /\ pc = "idle" /\ at(Worker, "w_wait")
  /\ IF cond.L
     THEN /\ cond' = [L |-> FALSE, waiting |-> TRUE, woken |-> "none"]
          /\ goto(Worker, "w_waiting", Nil)
          /\ UNCHANGED pc
     ELSE /\ pc' = "panic"
          /\ UNCHANGED <<cond, th>>
  /\ UNCHANGED <<bids, asks, orders, trades, err, traded, call, mu, shutdown, timer>>

\* cond.Wait, second half: a Signal has woken the worker, which locks L
\* again and goes on to o.m.Lock() (line 350) without a look at the flag.
WaitReturn ==
  /\ pc = "idle" /\ at(Worker, "w_waiting")
  /\ cond.woken # "none" /\ ~cond.L
  /\ cond' = [cond EXCEPT !.L = TRUE]
  /\ goto(Worker, "w_lock", Nil)
  /\ UNCHANGED <<bids, asks, orders, pc, trades, err, traded, call, mu, shutdown, timer>>

\* The timer goroutine, line 339: o.cond.L.Lock().
TimerLock ==
  /\ pc = "idle" /\ timer = "t_lock"
  /\ ~cond.L
  /\ cond' = [cond EXCEPT !.L = TRUE]
  /\ timer' = "t_sleep"
  /\ UNCHANGED <<bids, asks, orders, pc, trades, err, traded, call, mu, th, shutdown>>

\* Lines 342-343: the sleep ends at the expiry instant and the goroutine
\* signals.
TimerFires ==
  /\ pc = "idle" /\ timer = "t_sleep"
  /\ cond' = Signal("timer")
  /\ timer' = "t_unlock"
  /\ UNCHANGED <<bids, asks, orders, pc, trades, err, traded, call, mu, th, shutdown>>

\* Line 340, the deferred o.cond.L.Unlock(): fatal when L is not locked by
\* then (the worker's Wait has unlocked it and has not locked it again).
TimerUnlock ==
  /\ pc = "idle" /\ timer = "t_unlock"
  /\ IF cond.L
     THEN /\ cond' = [cond EXCEPT !.L = FALSE]
          /\ timer' = "done"
          /\ UNCHANGED pc
     ELSE /\ pc' = "panic"
          /\ UNCHANGED <<cond, timer>>
  /\ UNCHANGED <<bids, asks, orders, trades, err, traded, call, mu, th, shutdown>>

\* Shutdown, line 36: o.shutdown.Store(true).
CallShutdown(t) ==
  /\ pc = "idle" /\ at(t, "idle")
  /\ shutdown' = TRUE
  /\ goto(t, "shutdown_signal", Nil)
  /\ UNCHANGED <<bids, asks, orders, pc, trades, err, traded, call, mu, cond, timer>>

\* Shutdown, line 37: o.cond.Signal().
ShutdownSignal(t) ==
  /\ pc = "idle" /\ at(t, "shutdown_signal")
  /\ cond' = Signal("shutdown")
  /\ goto(t, "idle", Nil)
  /\ UNCHANGED <<bids, asks, orders, pc, trades, err, traded, call, mu, shutdown, timer>>

\* The calls of the operator.
OperatorStep(t) ==
  \/ (\E order \in ThreadOrderInputs : CallAddOrder(t, order)) /\ UNCHANGED wvars
  \/ (\E orderId \in ThreadIds : CallCancelOrder(t, orderId)) /\ UNCHANGED wvars
  \/ (\E orderIds \in ThreadOrderIdsInputs : CallCancelOrders(t, orderIds)) /\ UNCHANGED wvars
  \/ CallShutdown(t)
  \/ ShutdownSignal(t)

\* The steps of the worker's pass that do not wait for the expiry instant.
WorkerPass ==
  \/ WorkerCheck
  \/ WaitEnter
  \/ WaitReturn
  \/ WorkerCollect /\ UNCHANGED wvars

TimerStep ==
  \/ TimerLock
  \/ TimerUnlock

EngineStep(t) == LockedStep(t) /\ UNCHANGED wvars

WorkerNext ==
  \/ \E t \in Operators : OperatorStep(t)
  \/ \E t \in Operators \cup {Worker} : EngineStep(t)
  \/ WorkerPass
  \/ TimerStep
  \/ TimerFires

WorkerSpec == Init /\ [][WorkerNext]_vars

\* The steps of one goroutine that wait for nothing but the scheduler and
\* the mutexes.
WorkerRuns == WorkerPass \/ EngineStep(Worker)
OperatorRuns(t) == (Acquire(t) /\ UNCHANGED wvars) \/ ShutdownSignal(t)

\* A thread is not for ever in a body under the engine mutex: the body runs
\* to its return (weak fairness of the body's step, which is enabled whenever
\* the thread is in the body and the process lives).
BodyReturns(t) == th[t].pc \notin WritePositions \/ pc = "panic"

\* The scheduler runs every goroutine that can take a step, and a call that
\* has begun goes on.  Nothing says when the expiry instant comes: the end
\* of the timer's sleep (TimerFires) has no fairness.
WorkerFairSpec ==
  /\ WorkerSpec
  /\ WF_vars(WorkerRuns)
  /\ WF_vars(TimerStep)
  /\ \A t \in Operators : WF_vars(OperatorRuns(t))
  /\ \A t \in Operators : []<>BodyReturns(t)

TypeOK ==
  /\ pc \in {"idle", "match", "panic"}
  /\ DOMAIN orders \subseteq OrderIdSet
  /\ err \in BOOLEAN

(***************************************************************************)
(* The properties.                                                         *)
(***************************************************************************)
Range(q) == { q[i] : i \in 1..Len(q) }

\* The orders held in the level queues of one map, and the resting orders:
\* the orders of the index and of the level queues.
Queued(m) == UNION { Range(m.node[k].value) : k \in Keys(m) }
IndexOrders == { orders[id].order : id \in DOMAIN orders }
Resting == IndexOrders \cup Queued(bids) \cup Queued(asks)

NotCrossed ==
  LET buys  == { o \in Resting : o.side = Buy }
      sells == { o \in Resting : o.side = Sell }
  IN \/ buys = {}
     \/ sells = {}
     \/ \A b \in buys, a \in sells : b.price < a.price

\* A step in which a call of AddOrder returns: from its admission with an
\* error, or from MatchOrders.
AddOrderReturns ==
  /\ pc' = "idle"
  /\ \/ MatchOrders
     \/ \E order \in OrderInputs : AddOrder(order)

\* C1: after every AddOrder call that returns the book is not crossed: no
\* buy order rests, or no sell order rests, or the highest resting buy price
\* is below the lowest resting sell price.
C1_NotCrossedAfterAddOrder == [][AddOrderReturns => NotCrossed']_vars

\* The number of times id is held in the level queues of both books.
QueueCount(id) ==
  LET count(m) ==
        Cardinality({ pos \in UNION { {<<k, i>> : i \in 1..Len(m.node[k].value)} : k \in Keys(m) } :
                        m.node[pos[1]].value[pos[2]].orderId = id })
  IN count(bids) + count(asks)

RECURSIVE SumSizes(_, _)
SumSizes(m, ks) ==
  IF ks = {} THEN 0
  ELSE LET k == CHOOSE x \in ks : TRUE
       IN Size(m.node[k].value) + SumSizes(m, ks \ {k})

\* C2: between calls the ids of the index are the ids held in the level
\* queues, each in exactly one queue position, and Size() is the number of
\* index entries and the sum of the level queue sizes of both books.
C2_IndexMatchesQueues ==
  pc = "idle" =>
    /\ \A id \in OrderIdSet : QueueCount(id) = (IF id \in DOMAIN orders THEN 1 ELSE 0)
    /\ BookSize(Book) = Cardinality(DOMAIN orders)
    /\ BookSize(Book) = SumSizes(bids, Keys(bids)) + SumSizes(asks, Keys(asks))

\* C3: after every public call returns, a price is a key of a side's map
\* exactly when the level queue at that price holds an order: no key maps to
\* an empty level.
C3_NoEmptyLevel ==
  pc = "idle" =>
    /\ \A k \in Keys(bids) : ~IsEmpty(bids.node[k].value)
    /\ \A k \in Keys(asks) : ~IsEmpty(asks.node[k].value)

\* C4: every resting order has 0 < remainingQuantity <= initialQuantity,
\* for every submitted quantity, 0 included.
C4_RemainingPositive ==
  \A o \in Resting : 0 < o.remainingQuantity /\ o.remainingQuantity <= o.initialQuantity

\* The sum of the quantities of the trades of ts that name id.
RECURSIVE TradedIn(_, _)
TradedIn(ts, id) ==
  IF ts = <<>> THEN 0
  ELSE (IF Head(ts).bidTrade.orderId = id THEN Head(ts).bidTrade.quantity ELSE 0)
       + (IF Head(ts).askTrade.orderId = id THEN Head(ts).askTrade.quantity ELSE 0)
       + TradedIn(Tail(ts), id)

Crosses(incoming, p) ==
  IF incoming.side = Buy THEN incoming.price >= p ELSE incoming.price <= p

\* The positions of ts whose trade names id.
Naming(ts, id) ==
  { i \in 1..Len(ts) : ts[i].bidTrade.orderId = id \/ ts[i].askTrade.orderId = id }

\* C6: FIFO within a level.  When exactly two GoodTillCancel orders rest,
\* both at one price of one side and both with quantity left, an incoming
\* opposite GoodTillCancel order of positive quantity that reaches their
\* price fills one of them (the older, A) first: A receives
\* min(incoming, A's remainder), B the rest up to its remainder, and every
\* trade that names A comes before every trade that names B.
C6_FifoWithinLevel ==
  pc = "idle" =>
    \A a, b \in DOMAIN orders :
      LET oa == orders[a].order
          ob == orders[b].order
      IN ( /\ a # b /\ DOMAIN orders = {a, b}
           /\ oa.orderType = GoodTillCancel /\ ob.orderType = GoodTillCancel
           /\ oa.side = ob.side /\ oa.price = ob.price
           /\ oa.remainingQuantity > 0 /\ ob.remainingQuantity > 0 )
         => \A o \in OrderInputs :
              ( /\ o.orderId \notin DOMAIN orders
                /\ o.orderType = GoodTillCancel
                /\ o.side # oa.side
                /\ o.initialQuantity > 0
                /\ Crosses(o, oa.price) )
              => LET ts == AddOrderRun(Book, o).trades
                     fifo(x, y) ==
                       LET fx == Min(o.initialQuantity, x.remainingQuantity)
                           fy == Min(o.initialQuantity - fx, y.remainingQuantity)
                       IN /\ TradedIn(ts, x.orderId) = fx
                          /\ TradedIn(ts, y.orderId) = fy
                          /\ \A i \in Naming(ts, x.orderId), j \in Naming(ts, y.orderId) : i < j
                 IN fifo(oa, ob) \/ fifo(ob, oa)

\* C7: price priority in the trades of one call.  The trades of an incoming
\* buy name asks of ascending price, those of an incoming sell bids of
\* descending price; and a Market buy of quantity q against exactly two
\* resting asks, a1 at p1 and a2 at the higher p2, with a1 < q <= a1 + a2,
\* returns two trades, a1 at p1 with the first ask and then q - a1 at p2 with
\* the second, which stays in the book (7 against 5@100 and 5@110: 5 at 100,
\* 2 at 110, 3 left at 110).
C7_PricePriority ==
  pc = "idle" =>
    \A o \in OrderInputs :
      o.orderId \notin DOMAIN orders =>
        LET r  == AddOrderRun(Book, o)
            ts == r.trades
        IN /\ \A i, j \in 1..Len(ts) :
                i < j => IF o.side = Buy
                         THEN ts[i].askTrade.price <= ts[j].askTrade.price
                         ELSE ts[i].bidTrade.price >= ts[j].bidTrade.price
           /\ \A x, y \in DOMAIN orders :
                LET a1 == orders[x].order
                    a2 == orders[y].order
                IN ( /\ DOMAIN orders = {x, y} /\ x # y
                     /\ a1.side = Sell /\ a2.side = Sell
                     /\ a1.orderType = GoodTillCancel /\ a2.orderType = GoodTillCancel
                     /\ a1.price < a2.price
                     /\ o.orderType = Market /\ o.side = Buy
                     /\ a1.remainingQuantity < o.initialQuantity
                     /\ o.initialQuantity <= a1.remainingQuantity + a2.remainingQuantity )
                   => /\ r.status = "return"
                      /\ Len(ts) = 2
                      /\ ts[1].bidTrade.orderId = o.orderId
                      /\ ts[1].askTrade = [orderId |-> x, price |-> a1.price,
                                           quantity |-> a1.remainingQuantity]
                      /\ ts[2].bidTrade.orderId = o.orderId
                      /\ ts[2].askTrade = [orderId |-> y, price |-> a2.price,
                                           quantity |-> o.initialQuantity - a1.remainingQuantity]
                      /\ x \notin DOMAIN r.bk.orders
                      /\ y \in DOMAIN r.bk.orders

\* C9: every AddOrder call terminates: the loop of MatchOrders, once
\* entered, reaches its return.
C9_AddOrderTerminates == [](pc = "match" => <>(pc = "idle"))

\* Two books with the same index, the same keys and the same level queues.
SameLevels(m1, m2) ==
  /\ Keys(m1) = Keys(m2)
  /\ \A k \in Keys(m1) : m1.node[k].value = m2.node[k].value
SameBook(b1, b2) ==
  /\ b1.orders = b2.orders
  /\ SameLevels(b1.bids, b2.bids)
  /\ SameLevels(b1.asks, b2.asks)

\* C10: add/cancel round trip.  For an order whose id is not in the book and
\* whose AddOrder returns without error and without trades, Size() goes up
\* by one, and CancelOrder of its id then returns no error and leaves the
\* index and both books (keys and level queues) as they were before the
\* AddOrder.
C10_AddCancelRoundTrip ==
  pc = "idle" =>
    \A o \in OrderInputs :
      o.orderId \notin DOMAIN orders =>
        LET r == AddOrderRun(Book, o)
        IN (r.status = "return" /\ r.trades = <<>>)
           => /\ BookSize(r.bk) = BookSize(Book) + 1
              /\ LET c == cancelOrder(r.bk, o.orderId)
                 IN ~c.err /\ ~c.panic /\ SameBook(c.bk, Book)

\* A step of CallSpec in which a caller makes the call op: every call starts
\* between calls and is recorded with its argument.
Calls(op) == pc = "idle" /\ call'.op = op

\* C11: AddOrder of an order whose id is in the index returns an error,
\* emits no trade and leaves the index and both books as they are.
C11_DuplicateOrderId ==
  [][(Calls("AddOrder") /\ call'.arg.orderId \in DOMAIN orders)
       => /\ err' /\ pc' = "idle" /\ trades' = <<>>
          /\ UNCHANGED <<bids, asks, orders>>]_vars

\* Witness of C11: the last call was an AddOrder that returned an error
\* and its id is in the index (a rejected Market or FillAndKill order of a
\* new id leaves its id out of the index).
C11_Witness ==
  /\ call.op = "AddOrder" /\ pc = "idle" /\ err
  /\ call.arg.orderId \in DOMAIN orders

\* C12: CancelOrder of an id that is not in the index returns an error and
\* leaves the index and both books as they are; CancelOrder of an id that is
\* in the index returns no error and takes the id out of the index, so that
\* a second CancelOrder of the same id is the first case.
C12_UnknownCancel ==
  [][Calls("CancelOrder")
       => IF call'.arg \notin DOMAIN orders
          THEN err' /\ pc' = "idle" /\ UNCHANGED <<bids, asks, orders>>
          ELSE ~err' /\ pc' = "idle" /\ call'.arg \notin DOMAIN orders']_vars

\* The positions of ids whose id is not in the index idx when its turn comes:
\* it never was, or an earlier position of the list names it.
UnknownAt(ids, idx) ==
  { i \in 1..Len(ids) : ids[i] \notin DOMAIN idx \/ \E j \in 1..(i - 1) : ids[j] = ids[i] }

\* C13: CancelOrders(ids) cancels the ids in list order and stops at the
\* first id that is not in the index: it returns an error, the ids before
\* that position are out of the index and every other id keeps its index
\* entry; a list without such an id is cancelled whole without error.
C13_CancelOrdersStops ==
  [][Calls("CancelOrders")
       => LET ids == call'.arg
              bad == UnknownAt(ids, orders)
              k   == IF bad = {} THEN Len(ids) + 1
                     ELSE CHOOSE i \in bad : \A j \in bad : i <= j
              before == { ids[j] : j \in 1..(k - 1) }
          IN /\ pc' = "idle"
             /\ err' = (bad # {})
             /\ DOMAIN orders' = DOMAIN orders \ before
             /\ \A id \in DOMAIN orders' : orders'[id] = orders[id]]_vars

\* C14: AddOrder of a Market order while no order of the opposite side
\* rests returns an error, emits no trade and leaves the index and both
\* books as they are.
C14_MarketUnfillable ==
  [][( /\ Calls("AddOrder")
       /\ call'.arg.orderType = Market
       /\ \A o \in Resting : o.side = call'.arg.side )
       => /\ err' /\ pc' = "idle" /\ trades' = <<>>
          /\ UNCHANGED <<bids, asks, orders>>]_vars

\* Witness of C14: the last call was an AddOrder of a Market order of a new
\* id that returned an error, and the orders that rest are all of its side.
C14_Witness ==
  /\ call.op = "AddOrder" /\ pc = "idle" /\ err
  /\ call.arg.orderType = Market
  /\ call.arg.orderId \notin DOMAIN orders
  /\ orders # <<>>
  /\ \A o \in Resting : o.side = call.arg.side

\* C15: AddOrder of a FillAndKill order of a new id is rejected, with an
\* error and no change of the index and the books, exactly when no order of
\* the opposite side rests or its price is worse than the best opposite
\* price (a buy below the lowest resting sell price, a sell above the
\* highest resting buy price); otherwise it is admitted.
C15_FillAndKillRejection ==
  [][( /\ Calls("AddOrder")
       /\ call'.arg.orderType = FillAndKill
       /\ call'.arg.orderId \notin DOMAIN orders )
       => LET o   == call'.arg
              opp == { r \in Resting : r.side # o.side }
              unmarketable ==
                \/ opp = {}
                \/ o.side = Buy /\ \A r \in opp : o.price < r.price
                \/ o.side = Sell /\ \A r \in opp : o.price > r.price
          IN IF unmarketable
             THEN err' /\ pc' = "idle" /\ UNCHANGED <<bids, asks, orders>>
             ELSE ~err' /\ o.orderId \in DOMAIN orders']_vars

\* The sum of the remaining quantities of a set of orders.
RECURSIVE SumRemaining(_)
SumRemaining(S) ==
  IF S = {} THEN 0
  ELSE LET o == CHOOSE x \in S : TRUE
       IN o.remainingQuantity + SumRemaining(S \ {o})

\* The quantity available to an order of side `side` at price `price`: what
\* remains of the resting orders of the opposite side priced at or better.
Available(side, price) ==
  SumRemaining({ r \in Resting : r.side # side /\ Crosses([side |-> side, price |-> price],
                                                          r.price) })

\* C16: between calls, for every FillOrKill order of a new id with price p
\* and quantity q: CanFullyFill(side, p, q) is true exactly when the quantity
\* available at p or better is at least q; when it is less the order is
\* rejected with an error and no change; otherwise it is admitted and fills
\* completely (its trades sum to q and it does not rest).
C16_FillOrKill ==
  pc = "idle" =>
    \A o \in CallOrderInputs :
      (o.orderType = FillOrKill /\ o.orderId \notin DOMAIN orders)
        => LET fillable == Available(o.side, o.price) >= o.initialQuantity
               r == AddOrderRun(Book, o)
           IN /\ CanFullyFill(Book, o.side, o.price, o.initialQuantity) = fillable
              /\ IF ~fillable
                 THEN r.status = "reject" /\ r.bk = Book
                 ELSE /\ r.status = "return"
                      /\ TradedIn(r.trades, o.orderId) = o.initialQuantity
                      /\ o.orderId \notin DOMAIN r.bk.orders

\* ModifyOrder as the claim states it, step by step: on an id that is not
\* in the index an error and no change; on an id in the index the old entry
\* goes and either the replacement is rejected by the admission or the index
\* holds the order modify.ToOrder(type of the order replaced), with every
\* other entry as it was.
ModifyReplaces ==
  Calls("ModifyOrder")
    => LET modify == call'.arg
           id == modify.orderId
       IN IF id \notin DOMAIN orders
          THEN err' /\ pc' = "idle" /\ UNCHANGED <<bids, asks, orders>>
          ELSE /\ \A k \in DOMAIN orders \ {id} :
                    k \in DOMAIN orders' /\ orders'[k] = orders[k]
               /\ IF err' THEN id \notin DOMAIN orders'
                  ELSE /\ id \in DOMAIN orders'
                       /\ orders'[id].order.orderType
                            = IF orders[id].order.orderType = Market THEN GoodTillCancel
                              ELSE orders[id].order.orderType
                       /\ orders'[id].order.orderId = id
                       /\ orders'[id].order.side = modify.side
                       /\ orders'[id].order.initialQuantity = modify.quantity
                       /\ orders'[id].order.remainingQuantity = modify.quantity
                       /\ orders[id].order.orderType # Market
                            => orders'[id].order.price = modify.price

\* The modified order is at the tail of its level: when a ModifyOrder has
\* returned and the modified order a and one other order b are all that
\* rests, both GoodTillCancel at one price of one side, the first trade of an
\* incoming opposite GoodTillCancel order that reaches their price names b.
ModifiedGoesToTail ==
  (pc = "idle" /\ call.op = "ModifyOrder" /\ ~err) =>
    LET a == call.arg.orderId IN
    \A b \in DOMAIN orders :
      ( /\ a \in DOMAIN orders /\ a # b /\ DOMAIN orders = {a, b}
        /\ orders[a].order.orderType = GoodTillCancel
        /\ orders[b].order.orderType = GoodTillCancel
        /\ orders[a].order.side = orders[b].order.side
        /\ orders[a].order.price = orders[b].order.price )
      => \A o \in CallOrderInputs :
           ( /\ o.orderId \notin DOMAIN orders
             /\ o.orderType = GoodTillCancel
             /\ o.side # orders[b].order.side
             /\ Crosses(o, orders[b].order.price) )
           => LET ts == AddOrderRun(Book, o).trades
              IN /\ ts # <<>>
                 /\ {ts[1].bidTrade.orderId, ts[1].askTrade.orderId} = {o.orderId, b}

\* C17: ModifyOrder replaces the order of an id in the index by an order of
\* the same id and type with the side, price and quantity of the request,
\* placed at the tail of its level; on an id that is not in the index it
\* returns an error and changes nothing.
C17_ModifyOrder == [][ModifyReplaces]_vars /\ []ModifiedGoesToTail

\* C18: ModifyOrder is atomic with respect to the other threads.  While one
\* thread is between the cancel step and the re-add step of its ModifyOrder,
\* no step of another thread changes the index or the books; and the re-add
\* step, when it returns, leaves the modified order in the index.
BetweenCancelAndAdd(t) == at(t, "modify_add_lock")
ReAddReturns(t) == at(t, "modify_add_body") /\ th'[t].pc = "idle"
C18_ModifyOrderAtomic ==
  [][\A t \in Callers :
       /\ (BetweenCancelAndAdd(t) /\ th'[t].pc = "modify_add_lock")
            => UNCHANGED <<bids, asks, orders>>
       /\ ReAddReturns(t)
            => /\ th[t].arg.orderId \in DOMAIN orders'
               /\ orders'[th[t].arg.orderId].order = th[t].arg]_vars

\* C19: the index and the books are read and written under the engine mutex
\* only.  No thread is reading them in Size, in OrderInfo or in the existence
\* test of ModifyOrder while another thread is inside a mutating operation.
ReadsBesideWriter(t, u) ==
  /\ t # u
  /\ th[t].pc \in ReadPositions
  /\ th[u].pc \in WritePositions /\ mu = u
C19_AccessUnderMutex == \A t \in Threads : \A u \in Threads : ~ReadsBesideWriter(t, u)

\* C20: the expiry worker never deadlocks the engine.  It has released the
\* engine mutex when it calls CancelOrders, so it never waits in the Lock of
\* CancelOrders for a mutex that it holds itself, and no caller waits for a
\* mutex that the worker will never release.
WorkerDeadlocked == at(Worker, "cancels_lock") /\ mu = Worker
C20_WorkerNeverDeadlocks == ~WorkerDeadlocked

\* C21: each expiry sweep removes exactly the GoodForDay orders.  Every
\* GoodForDay order in the index when the worker, woken by the timer, holds
\* the engine mutex to collect the ids is eventually out of the index (or the
\* process has ended), and the step in which the worker's CancelOrders
\* returns leaves every order of another type in the index as it was.
IsGoodForDay(id) == id \in DOMAIN orders /\ orders[id].order.orderType = GoodForDay
SweepBegins(id) ==
  at(Worker, "w_collect") /\ cond.woken = "timer" /\ IsGoodForDay(id)
Swept(id) == id \notin DOMAIN orders \/ pc = "panic"
SweepReturns == at(Worker, "cancels_body") /\ th'[Worker].pc # "cancels_body"
OthersUntouched ==
  \A id \in DOMAIN orders :
    ~IsGoodForDay(id) => id \in DOMAIN orders' /\ orders'[id] = orders[id]
C21_SweepRemovesGoodForDay ==
  /\ \A id \in ThreadIds : SweepBegins(id) ~> Swept(id)
  /\ [][SweepReturns => OthersUntouched]_vars

\* C22: Shutdown is prompt.  Once Shutdown has set the flag, the worker
\* leaves its loop and terminates (or the process has ended), whatever the
\* interleaving of the worker, the timer goroutine and the caller, and
\* without the timer reaching the expiry instant.
WorkerTerminated == at(Worker, "w_done") \/ pc = "panic"
C22_ShutdownPrompt == shutdown ~> WorkerTerminated

\* C28: a wake-up of the worker caused by Shutdown performs no sweep.  The
\* worker that Shutdown's Signal has woken is never in the sweep: not at the
\* lock of the engine mutex, not collecting the ids, not in CancelOrders.
SweepPositions == {"w_lock", "w_collect", "cancels_lock", "cancels_body"}
SweepsAfterShutdown ==
  th[Worker].pc \in SweepPositions /\ cond.woken = "shutdown"
C28_ShutdownDoesNotSweep == ~SweepsAfterShutdown

\* C23: between calls, OrderInfo returns for each side one entry per price
\* that has resting orders, in the sorted order of that side (the order of
\* the side's map), and the quantity of an entry is the sum of the remaining
\* quantities of the orders resting at that price.
RestingAt(side, price) == { r \in Resting : r.side = side /\ r.price = price }
RestingPrices(side) == { r.price : r \in { x \in Resting : x.side = side } }
SortedBy(m, S) ==
  CHOOSE q \in Orderings(S) : \A i \in 1..Len(q) : \A j \in 1..Len(q) :
    i < j => less(m, q[i], q[j])
Snapshot(m, side) ==
  LET prices(q) == [i \in 1..Len(q) |->
                      [price |-> q[i], quantity |-> SumRemaining(RestingAt(side, q[i]))]]
  IN prices(SortedBy(m, RestingPrices(side)))
C23_OrderInfoSnapshot ==
  pc = "idle" =>
    /\ OrderInfo(Book).bids = Snapshot(bids, Buy)
    /\ OrderInfo(Book).asks = Snapshot(asks, Sell)

\* C24: the ordered map.  After any sequence of Insert and Delete calls the
\* loop from Begin() with Next() visits exactly the keys in the map, each
\* once, in the order of the comparator, Begin() is the first of them and
\* Size() is their number; an Insert makes Get return the inserted value for
\* its key and changes no other key; a Delete of a present key completes
\* normally, removes that key and changes no other key.
KeysIn(m) == { k \in DeepPrices : Has(m, k) }
MapInOrder(m) ==
  /\ Walk(m) = SortedBy(m, KeysIn(m))
  /\ KeysIn(m) # {} => Begin(m) = SortedBy(m, KeysIn(m))[1]
  /\ m.size = Cardinality(KeysIn(m))
OthersKept(m1, m2, key) ==
  \A k \in DeepPrices \ {key} :
    /\ Has(m2, k) = Has(m1, k)
    /\ Has(m1, k) => Get(m2, k, NewLinkedList) = Get(m1, k, NewLinkedList)
Inserted(m1, m2, key, value) ==
  /\ Has(m2, key) /\ Get(m2, key, NewLinkedList) = value
  /\ OthersKept(m1, m2, key)
Deleted(m1, m2, key) ==
  /\ pc' = "idle"
  /\ ~Has(m2, key)
  /\ OthersKept(m1, m2, key)
MapCallDone ==
  LET side == call'.arg.side
      m1 == IF side = Buy THEN bids ELSE asks
      m2 == IF side = Buy THEN bids' ELSE asks'
  IN /\ Calls("Insert") => Inserted(m1, m2, call'.arg.key, call'.arg.value)
     /\ Calls("Delete") => Deleted(m1, m2, call'.arg.key)
MapsInOrder == pc = "idle" => MapInOrder(bids) /\ MapInOrder(asks)
C24_OrderedMap == [][MapCallDone]_vars /\ []MapsInOrder

\* C25: CancelOrder(id) of a resting order removes exactly that order.
\* Afterwards id is in neither the index nor a level queue, and every other
\* order of the index is still in the index, unchanged, and in the queue of
\* its price level; every level queue is what it was without the order id
\* (same orders, same remaining quantities, same relative order).
Without(q, id) ==
  LET keep(o) == o.orderId # id IN SelectSeq(q, keep)
QueueOf(b, a, order) == Level(IF order.side = Buy THEN b ELSE a, order.price)
CancelRemovesOnly(id) ==
  /\ pc' = "idle"
  /\ id \notin DOMAIN orders'
  /\ \A o \in Queued(bids') \cup Queued(asks') : o.orderId # id
  /\ \A other \in DOMAIN orders \ {id} :
       /\ other \in DOMAIN orders'
       /\ orders'[other].order = orders[other].order
       /\ orders[other].order \in Range(QueueOf(bids', asks', orders[other].order))
  /\ \A p \in PriceSet :
       /\ Level(bids', p) = Without(Level(bids, p), id)
       /\ Level(asks', p) = Without(Level(asks, p), id)
C25_CancelFrame ==
  [][(Calls("CancelOrder") /\ call'.arg \in DOMAIN orders)
       => CancelRemovesOnly(call'.arg)]_vars

\* C26: Market promotion.  AddOrder of a Market order of a new id while
\* orders of the opposite side rest admits it as a GoodTillCancel order
\* whose price is the worst price resting on the opposite side: the highest
\* ask for a buy, the lowest bid for a sell.
OppositePrices(side) == { r.price : r \in { x \in Resting : x.side # side } }
WorstPrice(side) ==
  CHOOSE p \in OppositePrices(side) :
    \A q \in OppositePrices(side) : IF side = Buy THEN q <= p ELSE p <= q
MarketIsPromoted(order) ==
  /\ ~err'
  /\ order.orderId \in DOMAIN orders'
  /\ orders'[order.orderId].order.orderType = GoodTillCancel
  /\ orders'[order.orderId].order.price = WorstPrice(order.side)
C26_MarketPromotion ==
  [][( /\ Calls("AddOrder")
       /\ call'.arg.orderType = Market
       /\ call'.arg.orderId \notin DOMAIN orders
       /\ OppositePrices(call'.arg.side) # {} )
       => MarketIsPromoted(call'.arg)]_vars

\* C27: only GoodTillCancel and GoodForDay orders rest.  Once an AddOrder
\* call has returned, with trades or with an error, no order of the index or
\* of a level queue is of type FillAndKill, FillOrKill or Market.
RestingTypes == {GoodTillCancel, GoodForDay}
C27_OnlyLimitOrdersRest ==
  (pc = "idle" /\ call.op = "AddOrder") =>
    \A o \in Resting : o.orderType \in RestingTypes

====
